---- MODULE Spec2Model ----
(***************************************************************************)
(* chempict: the 2-D coordinate generator (layout/coordinate_generator.js) *)
(* and the bond model (model/bond.js) as a state machine.                  *)
(*                                                                         *)
(* generate(molecule) is one synchronous call; it is modelled as the       *)
(* sequence of its phases (pc), one action per phase or loop iteration.    *)
(* Coordinates are symbolic: "none" (no coord field written), "origin"     *)
(* (new MathCoordinate(0, 0)), "firstBondVector" (the scaled first bond    *)
(* vector) and "computed" (a point produced by trigonometric placement).   *)
(***************************************************************************)
EXTENDS Integers, Sequences, FiniteSets, TLC

\* how many times generate is invoked on the same molecule object
MaxRuns == 2

\* the atoms a bond is built from and asked about when ModelBond is exercised alone
MaxAtom == 3

\* the atoms path edges are built from, and the longest path edge handed to splice
MaxPathAtom == 4
MaxPathLen == 3

\* the largest ring whose center is asked for, and the largest x and y of an atom of it
MaxRingAtoms == 3
MaxCoord == 1

\* the largest ring handed to placeRing on its own
MaxRingSize == 5

\* the largest x and y of an anchor atom when the start atom is chosen on its own
MaxAnchorCoord == 2

\* ModelBond.ORDER.SINGLE, ModelBond.ORDER.DOUBLE and ModelBond.STEREO.NOT_STEREO
SINGLE == 1
DOUBLE == 2
NOT_STEREO == 10

\* null / undefined object reference (atoms, bonds and rings are numbered from 1)
Null == 0

(***************************************************************************)
(* The molecules handed to generate: n atoms 1..n, bonds <<source,target>> *)
(* in creation order, and the rings molecule.getRings() returns for them   *)
(* (atoms in cycle order, bonds by their number).                          *)
(***************************************************************************)
R(as, bs) == [atoms |-> as, bonds |-> bs]

Molecules ==
  << [n |-> 1, bonds |-> << >>, rings |-> << >>],
     [n |-> 2, bonds |-> << >>, rings |-> << >>],
     [n |-> 2, bonds |-> << <<1,2>> >>, rings |-> << >>],
     [n |-> 3, bonds |-> << <<1,2>>, <<2,3>> >>, rings |-> << >>],
     [n |-> 4, bonds |-> << <<1,2>>, <<1,3>>, <<1,4>> >>, rings |-> << >>],
     [n |-> 5, bonds |-> << <<1,2>>, <<2,3>>, <<3,4>>, <<2,5>> >>, rings |-> << >>],
     [n |-> 3, bonds |-> << <<1,2>>, <<2,3>>, <<3,1>> >>,
      rings |-> << R(<<1,2,3>>, <<1,2,3>>) >>],
     [n |-> 5, bonds |-> << <<1,2>>, <<2,3>>, <<3,1>>, <<1,4>>, <<4,5>> >>,
      rings |-> << R(<<1,2,3>>, <<1,2,3>>) >>],
     [n |-> 4, bonds |-> << <<1,2>>, <<2,3>>, <<3,1>>, <<2,4>>, <<4,3>> >>,
      rings |-> << R(<<1,2,3>>, <<1,2,3>>), R(<<2,4,3>>, <<4,5,2>>) >>],
     [n |-> 5, bonds |-> << <<1,2>>, <<2,3>>, <<3,1>>, <<3,4>>, <<4,5>>, <<5,3>> >>,
      rings |-> << R(<<1,2,3>>, <<1,2,3>>), R(<<3,4,5>>, <<4,5,6>>) >>],
     [n |-> 5, bonds |-> << <<1,2>>, <<2,3>>, <<3,4>>, <<4,1>>, <<3,5>>, <<5,1>> >>,
      rings |-> << R(<<1,2,3,4>>, <<1,2,3,4>>), R(<<1,2,3,5>>, <<1,2,5,6>>) >>],
     [n |-> 6, bonds |-> << <<1,2>>, <<2,3>>, <<3,1>>, <<3,4>>, <<4,5>>, <<5,6>>, <<6,4>> >>,
      rings |-> << R(<<1,2,3>>, <<1,2,3>>), R(<<4,5,6>>, <<5,6,7>>) >>],
     [n |-> 7, bonds |-> << <<1,2>>, <<2,3>>, <<3,1>>, <<3,4>>, <<4,5>>, <<5,6>>, <<6,4>>,
                            <<1,7>> >>,
      rings |-> << R(<<1,2,3>>, <<1,2,3>>), R(<<4,5,6>>, <<5,6,7>>) >>],
     [n |-> 4, bonds |-> << <<1,2>>, <<2,3>>, <<3,1>> >>,
      rings |-> << R(<<1,2,3>>, <<1,2,3>>) >>],
     [n |-> 6, bonds |-> << <<1,2>>, <<2,3>>, <<3,1>>, <<2,4>>, <<4,3>>, <<4,5>>, <<5,6>>,
                            <<6,4>> >>,
      rings |-> << R(<<1,2,3>>, <<1,2,3>>), R(<<2,4,3>>, <<4,5,2>>),
                   R(<<4,5,6>>, <<6,7,8>>) >>],
     [n |-> 7, bonds |-> << <<5,6>>, <<6,7>>, <<7,5>>, <<4,5>>, <<1,2>>, <<2,3>>, <<3,1>>,
                            <<2,4>>, <<4,3>> >>,
      rings |-> << R(<<1,2,3>>, <<5,6,7>>), R(<<2,4,3>>, <<8,9,6>>),
                   R(<<5,6,7>>, <<1,2,3>>) >> ] >>

VARIABLES
  input,            \* the molecule generate is called on: [mol, rot, geom]
  atoms,            \* molecule.atoms
  molBonds,         \* molecule.bonds (bond numbers, in the molecule's order)
  bond,             \* bond number -> ModelBond fields
  rings,            \* ring number -> the RingRing's atoms and bonds
  flags,            \* atom -> atom.flags
  coord,            \* atom -> atom.coord
  coords,           \* atom -> atom.coords (the property line 57 writes)
  ringFlags,        \* ring -> ring.flags[ISPLACED]
  isPlaced,         \* ring -> ring.isPlaced
  sssr,             \* generate's sssr (ring numbers)
  ringsets,         \* generate's ringsets
  ringset,          \* ringSet's argument
  mostComplexRing,  \* ringSet's mostComplexRing
  thisRing,         \* ringSet's thisRing
  caller,           \* who called ringSet: "seed" (line 85) or "next" (line 800)
  placedAtoms,      \* layoutNextRingSystem's placedAtoms
  nextRingAtoms,    \* layoutNextRingSystem's <<ringAtom, chainAtom>>
  safetyCounter,    \* generate's safetyCounter
  cntr,             \* handleAliphatics' cntr
  pc,               \* position in generate
  outcome,          \* "running", "returned" or the message of the error thrown
  steps,            \* the calls made so far in this run, in order
  lnrs,             \* what the last layoutNextRingSystem call saw and did
  prev,             \* the previous run: [steps, placed, outcome]
  probe,            \* the last otherAtom call made on a bond: its arguments and results
  spliced,          \* two path edges and what splice returned for them
  ringRing,         \* one RingRing: its atoms' coords, _center, what getCenter returned
  anchors,          \* two anchor atoms' coords and the start atom chosen for them
  iterations,       \* the atoms flagged PLACED at the end of each iteration of generate's loop
  run               \* number of the current invocation of generate

vars == << input, atoms, molBonds, bond, rings, flags, coord, coords, ringFlags, isPlaced,
           sssr, ringsets, ringset, mostComplexRing, thisRing, caller, placedAtoms,
           nextRingAtoms, safetyCounter, cntr, pc, outcome, steps, lnrs, prev, probe, spliced, ringRing,
           anchors, iterations, run >>

----------------------------------------------------------------------------
\* sequences

\* F applied to the value of v, with v computed once
With(v, F(_)) == CHOOSE r \in { F(x) : x \in { v } } : TRUE

SeqToSet(s) == { s[i] : i \in DOMAIN s }

Includes(s, x) == \E i \in DOMAIN s : s[i] = x

Last(s) == s[Len(s)]

RECURSIVE Flatten(_)
Flatten(ss) == IF ss = << >> THEN << >> ELSE Head(ss) \o Flatten(Tail(ss))

\* the elements of s in the order of their first occurrence
FirstOccurrences(s) == { i \in DOMAIN s : \A j \in 1..(i - 1) : s[j] # s[i] }

RemoveDuplicates(s) ==
  With(FirstOccurrences(s),
       LAMBDA first :
         [ k \in 1..Cardinality(first) |->
             s[CHOOSE i \in first : Cardinality({ j \in first : j <= i }) = k] ])

\* Array.prototype.find: the first element satisfying Test, or undefined
Find(s, Test(_)) ==
  LET hits == SelectSeq(s, Test) IN IF hits = << >> THEN Null ELSE hits[1]

\* the first of the longest sequences of ss
FirstLongest(ss) ==
  With(ss, LAMBDA all :
             all[CHOOSE i \in DOMAIN all :
                   /\ \A j \in DOMAIN all : Len(all[j]) <= Len(all[i])
                   /\ \A j \in 1..(i - 1) : Len(all[j]) < Len(all[i])])

Rotate(s, k) ==
  [ i \in 1..Len(s) |-> s[((i - 1 + k) % Len(s)) + 1] ]

----------------------------------------------------------------------------
\* the molecule

Ring(r) == rings[r]

countAtoms == Len(atoms)

countBonds == Len(molBonds)

Step(op, as) == [op |-> op, atoms |-> as]

\* ModelBond.prototype.otherAtom
otherAtomMutant(b, atom) ==
  IF atom = b.source THEN b.target ELSE b.source

otherAtom(b, atom) ==
  IF atom = b.source THEN b.target
  ELSE IF atom = b.target THEN b.source
  ELSE Null

\* molecule.getConnectedBondsList(atom)
getConnectedBondsList(atom) ==
  SelectSeq(molBonds, LAMBDA b : bond[b].source = atom \/ bond[b].target = atom)

\* the neighbours of atom, in the order of its bonds
Neighbours(atom) ==
  LET bs == getConnectedBondsList(atom)
  IN  [ i \in 1..Len(bs) |-> otherAtom(bond[bs[i]], atom) ]

\* molecule.fragmentCount: the number of connected components
\* S and the atoms a bond joins to an atom of S
Bonded(S) ==
  S \cup { a \in SeqToSet(atoms) :
             \E b \in SeqToSet(molBonds) :
               \/ bond[b].source = a /\ bond[b].target \in S
               \/ bond[b].target = a /\ bond[b].source \in S }

\* the atoms reachable from S
RECURSIVE Reach(_)
Reach(S) ==
  With(Bonded(S), LAMBDA T : IF T = S THEN S ELSE Reach(T))

RECURSIVE CountFragments(_)
CountFragments(rest) ==
  IF rest = {} THEN 0
  ELSE With(rest \ Reach({ CHOOSE x \in rest : \A y \in rest : x <= y }),
            LAMBDA others : 1 + CountFragments(others))

fragmentCount == CountFragments(SeqToSet(atoms))

----------------------------------------------------------------------------
\* ring partitioner

\* whether two rings have an atom in common
ShareAtom(r1, r2) == SeqToSet(Ring(r1).atoms) \cap SeqToSet(Ring(r2).atoms) # {}

RECURSIVE RingSystemOf(_, _)
RingSystemOf(S, rs) ==
  With(S \cup { r \in SeqToSet(rs) : \E q \in S : ShareAtom(r, q) },
       LAMBDA T : IF T = S THEN S ELSE RingSystemOf(T, rs))

\* ringPartitioner.GetPartitionedRings: the ring systems, each in the order of rs
RECURSIVE GetPartitionedRings(_)
GetPartitionedRings(rs) ==
  IF rs = << >> THEN << >>
  ELSE With(RingSystemOf({rs[1]}, rs),
            LAMBDA sys :
              << SelectSeq(rs, LAMBDA r : r \in sys) >>
                \o With(SelectSeq(rs, LAMBDA r : r \notin sys), GetPartitionedRings))

\* ringPartitioner.directConnectedRings: the other rings of the system sharing an atom
directConnectedRings(ring, rs) ==
  SelectSeq(rs, LAMBDA r : r # ring /\ ShareAtom(r, ring))

\* ringsets.sort(by length), a stable ascending sort
RECURSIVE SortByLength(_)
SortByLength(ss) ==
  IF ss = << >> THEN << >>
  ELSE LET front == SortByLength(SubSeq(ss, 1, Len(ss) - 1))
           x == Last(ss)
           keep == SelectSeq(front, LAMBDA y : Len(y) <= Len(x))
           after == SelectSeq(front, LAMBDA y : Len(y) > Len(x))
       IN  keep \o << x >> \o after

----------------------------------------------------------------------------
\* atom placer

RECURSIVE LongestPathFrom(_, _)
LongestPathFrom(path, allowed) ==
  With(SelectSeq(Neighbours(Last(path)), LAMBDA x : x \in allowed /\ ~Includes(path, x)),
       LAMBDA next :
         IF next = << >> THEN path
         ELSE FirstLongest([ i \in 1..Len(next) |->
                               With(Append(path, next[i]),
                                    LAMBDA longer : LongestPathFrom(longer, allowed)) ]))

\* layoutAtomPlacer.getInitialLongestChain
getInitialLongestChain ==
  FirstLongest([ i \in 1..Len(atoms) |-> LongestPathFrom(<< atoms[i] >>, SeqToSet(atoms)) ])

\* layoutAtomPlacer.getLongestUnplacedChain: the chain starts at atom and runs over
\* unplaced aliphatic atoms
getLongestUnplacedChain(fl, atom) ==
  With({ x \in SeqToSet(atoms) : ~fl[x].ISPLACED /\ ~fl[x].ISINRING },
       LAMBDA unplaced : LongestPathFrom(<< atom >>, unplaced))

\* atom.setFlag(ISPLACED, v) on every atom of as
MarkAll(fl, as, v) ==
  [ a \in DOMAIN fl |-> IF Includes(as, a) THEN [fl[a] EXCEPT !.ISPLACED = v] ELSE fl[a] ]

\* layoutAtomPlacer.markNotPlaced / markPlaced
markNotPlaced(fl, as) == MarkAll(fl, as, FALSE)

markPlaced(fl, as) == MarkAll(fl, as, TRUE)

\* layoutAtomPlacer.allPlaced(molecule, atCount)
atomsAllPlaced(fl) == \A a \in SeqToSet(atoms) : fl[a].ISPLACED

\* a placement primitive positions every atom of as and flags it PLACED
PositionAll(st, as) ==
  [st EXCEPT !.coord = [ a \in DOMAIN @ |-> IF Includes(as, a) THEN "computed" ELSE @[a] ],
             !.flags = MarkAll(@, as, TRUE)]

\* layoutAtomPlacer.populatePolygonCorners
populatePolygonCorners(st, as) ==
  [PositionAll(st, as) EXCEPT !.steps = Append(@, Step("populatePolygonCorners", as))]

\* layoutAtomPlacer.placeLinearChain: every atom after the chain's first is positioned
placeLinearChain(st, chain) ==
  [PositionAll(st, Tail(chain)) EXCEPT !.steps = Append(@, Step("placeLinearChain", chain))]

\* layoutAtomPlacer.distributePartners
distributePartners(st, atom, unplaced) ==
  [PositionAll(st, unplaced) EXCEPT
     !.steps = Append(@, Step("distributePartners", << atom >> \o unplaced))]

\* layoutAtomPlacer.partitionPartners: the unplaced neighbours of atom
unplacedPartners(fl, atom) ==
  SelectSeq(Neighbours(atom), LAMBDA x : ~fl[x].ISPLACED)

----------------------------------------------------------------------------
\* ring placer

\* layoutCoordinateGenerator.placeFirstBond
placeFirstBondMutant(st, b) ==
  [st EXCEPT !.coord[bond[b].source] = "origin",
             !.flags[bond[b].source].ISPLACED = TRUE,
             !.coord[bond[b].target] = "firstBondVector",
             !.flags[bond[b].target].ISPLACED = TRUE,
             !.bond[b].source = bond[b].target,
             !.bond[b].target = bond[b].source,
             !.steps = Append(@, Step("placeFirstBond", << bond[b].source, bond[b].target >>))]

placeFirstBond(st, b) ==
  [st EXCEPT !.coord[bond[b].source] = "origin",
             !.flags[bond[b].source].ISPLACED = TRUE,
             !.coord[bond[b].target] = "firstBondVector",
             !.flags[bond[b].target].ISPLACED = TRUE,
             !.steps = Append(@, Step("placeFirstBond", << bond[b].source, bond[b].target >>))]

\* The start atom of a sweep is decided by the coordinates of the two anchors
\* (placeFusedRing lines 583-611, findStartAtom): the first bond runs from the origin
\* straight up, so its target is the higher atom; for any other pair the comparison
\* is the one input.geom fixes for this molecule.
findStartAtom(st, atom1, atom2) ==
  IF st.coord[atom1] = "origin" /\ st.coord[atom2] = "firstBondVector" THEN atom2
  ELSE IF st.coord[atom1] = "firstBondVector" /\ st.coord[atom2] = "origin" THEN atom1
  ELSE IF input.geom THEN atom1 ELSE atom2

\* layoutRingPlacer.getNextBond
getNextBondMutant(ring, b, atom) ==
  Find(Ring(ring).bonds, LAMBDA f : bond[f].source = atom \/ bond[f].target = atom)

getNextBond(ring, b, atom) ==
  Find(Ring(ring).bonds,
       LAMBDA f : f # b /\ (bond[f].source = atom \/ bond[f].target = atom))

\* the loop of placeFusedRing, lines 618-623; Null marks a call on a null bond
RECURSIVE atomsToDraw(_, _, _, _)
atomsToDraw(ring, currentBond, currentAtom, n) ==
  IF n = 0 THEN << >>
  ELSE With(getNextBond(ring, currentBond, currentAtom),
            LAMBDA nextBond :
              IF nextBond = Null THEN << Null >>
              ELSE With(otherAtom(bond[nextBond], currentAtom),
                        LAMBDA nextAtom :
                          << nextAtom >> \o atomsToDraw(ring, nextBond, nextAtom, n - 1)))

\* layoutRingPlacer.atomsInPlacementOrder; Null marks a call on an undefined bond
RECURSIVE atomsInPlacementOrder(_, _)
atomsInPlacementOrder(atom, bonds) ==
  With(Find(bonds, LAMBDA b : otherAtom(bond[b], atom) # Null),
       LAMBDA nextBond :
         With(SelectSeq(bonds, LAMBDA b : b # nextBond),
              LAMBDA remainingBonds :
                IF Len(remainingBonds) > 0
                THEN IF nextBond = Null THEN << Null >>
                     ELSE With(otherAtom(bond[nextBond], atom),
                               LAMBDA nextAtom :
                                 << nextAtom >> \o atomsInPlacementOrder(nextAtom, remainingBonds))
                ELSE << >>))

\* the call op(as) is made
Log(st, op, as) == [st EXCEPT !.steps = Append(@, Step(op, as))]

\* a placement that dereferenced null or undefined throws a TypeError
Throw(st) == [st EXCEPT !.err = TRUE]

PlaceCorners(st, as) ==
  IF Includes(as, Null) THEN Throw(st) ELSE populatePolygonCorners(st, as)

\* layoutRingPlacer.placeFusedRing
placeFusedRing(st, ring, sharedFrag) ==
  LET bondAtom1 == sharedFrag.atoms[1]
      bondAtom2 == sharedFrag.atoms[2]
      startAtom == findStartAtom(st, bondAtom1, bondAtom2)
      currentBond == IF sharedFrag.bonds = << >> THEN Null ELSE sharedFrag.bonds[1]
  IN  PlaceCorners(Log(st, "placeFusedRing", sharedFrag.atoms),
                   atomsToDraw(ring, currentBond, startAtom, Len(Ring(ring).bonds) - 2))

\* layoutRingPlacer.placeSpiroRing
placeSpiroRingMutant(st, ring, sharedFrag) ==
  PlaceCorners(Log(st, "placeSpiroRing", sharedFrag.atoms),
               atomsInPlacementOrder(sharedFrag.atoms[1], Tail(Ring(ring).bonds)))

placeSpiroRing(st, ring, sharedFrag) ==
  PlaceCorners(Log(st, "placeSpiroRing", sharedFrag.atoms),
               atomsInPlacementOrder(sharedFrag.atoms[1], Ring(ring).bonds))

\* atom.bonds: the bonds of the atom, in creation order
AtomBonds(atom) ==
  SelectSeq([ i \in DOMAIN bond |-> i ],
            LAMBDA b : bond[b].source = atom \/ bond[b].target = atom)

\* layoutRingPlacer.getBridgeAtoms
getBridgeAtoms(sharedFrag) ==
  Flatten([ i \in 1..Len(sharedFrag.atoms) |->
              LET atom == sharedFrag.atoms[i]
                  shared == SelectSeq(AtomBonds(atom), LAMBDA b : Includes(sharedFrag.bonds, b))
              IN  [ j \in 1..Len(shared) |-> otherAtom(bond[shared[j]], atom) ] ])

\* layoutRingPlacer.placeBridgedRing
placeBridgedRing(st, ring, sharedFrag) ==
  LET bridgeAtoms == getBridgeAtoms(sharedFrag)
      st1 == Log(Log(st, "placeBridgedRing", sharedFrag.atoms), "getBridgeAtoms", bridgeAtoms)
  IN  IF Len(bridgeAtoms) < 2 THEN Throw(st1)
      ELSE LET startAtom == findStartAtom(st, bridgeAtoms[1], bridgeAtoms[2])
           IN  PlaceCorners(st1, atomsInPlacementOrder(startAtom, Ring(ring).bonds))

\* layoutRingPlacer.placeRing
placeRingMutant(st, ring, sharedFrag) ==
  LET sharedAtomCount == Len(sharedFrag.atoms)
      st1 == [st EXCEPT !.steps = Append(@, Step("placeRing", Ring(ring).atoms))]
  IN  IF sharedAtomCount >= 2 THEN placeBridgedRing(st1, ring, sharedFrag)
      ELSE IF sharedAtomCount = 1 THEN placeSpiroRing(st1, ring, sharedFrag)
      ELSE st1

placeRing(st, ring, sharedFrag) ==
  LET sharedAtomCount == Len(sharedFrag.atoms)
      st1 == [st EXCEPT !.steps = Append(@, Step("placeRing", Ring(ring).atoms))]
  IN  IF sharedAtomCount > 2 THEN placeBridgedRing(st1, ring, sharedFrag)
      ELSE IF sharedAtomCount = 2 THEN placeFusedRing(st1, ring, sharedFrag)
      ELSE IF sharedAtomCount = 1 THEN placeSpiroRing(st1, ring, sharedFrag)
      ELSE st1

\* layoutRingPlacer.getIntersectingAtoms / getIntersectingBonds
getIntersectingAtoms(ring1, ring2) ==
  SelectSeq(Ring(ring2).atoms, LAMBDA a : Includes(Ring(ring1).atoms, a))

getIntersectingBonds(ring1, ring2) ==
  SelectSeq(Ring(ring2).bonds, LAMBDA b : Includes(Ring(ring1).bonds, b))

\* layoutRingPlacer.placeConnectedRings, from the r-th connected ring on
RECURSIVE placeConnectedRingsFrom(_, _, _, _, _)
placeConnectedRingsFrom(st, rs, ring, handleType, r) ==
  IF r > Len(directConnectedRings(ring, rs)) \/ st.err THEN st
  ELSE LET connectedRing == directConnectedRings(ring, rs)[r]
           sharedFrag == [atoms |-> getIntersectingAtoms(ring, connectedRing),
                          bonds |-> getIntersectingBonds(ring, connectedRing)]
           sac == Len(sharedFrag.atoms)
       IN  IF /\ ~st.ringFlags[connectedRing]
              /\ \/ sac = 2 /\ handleType = "FUSED"
                 \/ sac = 1 /\ handleType = "SPIRO"
                 \/ sac > 2 /\ handleType = "BRIDGED"
           THEN With(placeRing(st, connectedRing, sharedFrag),
                     LAMBDA st1 :
                       With(IF st1.err THEN st1
                            ELSE With([st1 EXCEPT !.ringFlags[connectedRing] = TRUE],
                                      LAMBDA st2 : placeConnectedRingsFrom(
                                                     st2, rs, connectedRing, handleType, 1)),
                            LAMBDA st3 : placeConnectedRingsFrom(st3, rs, ring, handleType, r + 1)))
           ELSE placeConnectedRingsFrom(st, rs, ring, handleType, r + 1)

placeConnectedRings(st, rs, ring, handleType) ==
  With(st, LAMBDA st0 : placeConnectedRingsFrom(st0, rs, ring, handleType, 1))

\* layoutRingPlacer.placeRingSubstituents, from the k-th atom of the system's rings on
RECURSIVE placeRingSubstituentsFrom(_, _, _)
placeRingSubstituentsFrom(st, ringAtoms, k) ==
  IF k > Len(ringAtoms) THEN st
  ELSE With(unplacedPartners(st.flags, ringAtoms[k]),
            LAMBDA partners :
              With(IF Len(partners) > 0
                   THEN distributePartners([st EXCEPT !.flags = markNotPlaced(@, partners),
                                                      !.treated = @ \o partners],
                                           ringAtoms[k], partners)
                   ELSE st,
                   LAMBDA st2 : placeRingSubstituentsFrom(st2, ringAtoms, k + 1)))

placeRingSubstituents(st, rs) ==
  With([st EXCEPT !.treated = << >>],
       LAMBDA st0 :
         With(Flatten([ i \in 1..Len(rs) |-> Ring(rs[i]).atoms ]),
              LAMBDA ringAtoms : placeRingSubstituentsFrom(st0, ringAtoms, 1)))

\* layoutRingPlacer.resetUnplacedRingAtoms
resetUnplacedRingAtoms(fl, rs) ==
  markNotPlaced(fl, Flatten([ i \in 1..Len(rs) |->
                                IF ~isPlaced[rs[i]] THEN Ring(rs[i]).atoms ELSE << >> ]))

\* layoutRingPlacer.findNextRingBondWithUnplacedRingAtom: neither arrow function
\* returns the value of its body, so the result of the call is undefined
findNextRingBondWithUnplacedRingAtom(fl, bs) == Null

\* `ring1[j]` in getMostComplexRing: a ring has no indexed elements
RingElement(ring, j) == Null

\* layoutCoordinateGenerator.getMostComplexRing
RingHits(rs) ==
  { t \in (DOMAIN rs) \X (1..countAtoms) \X (DOMAIN rs) :
      /\ t[2] <= Len(Ring(rs[t[1]]).atoms)
      /\ t[3] > t[1]
      /\ rs[t[1]] # rs[t[3]]
      /\ \E l \in 1..Len(Ring(rs[t[3]]).atoms) :
           RingElement(rs[t[1]], t[2]) = RingElement(rs[t[3]], l) }

RingNeighbors(rs) ==
  With(RingHits(rs),
       LAMBDA hits : [ i \in DOMAIN rs |->
                         Cardinality({ t \in hits : t[1] = i }) +
                         Cardinality({ t \in hits : t[3] = i }) ])

getMostComplexRing(rs) ==
  With(RingNeighbors(rs),
       LAMBDA neighbors :
         LET top == { i \in DOMAIN rs : neighbors[i] > 0 /\ \A j \in DOMAIN rs :
                                          neighbors[j] <= neighbors[i] }
             mostComplexPosition == IF top = {} THEN 1
                                    ELSE CHOOSE i \in top : \A j \in top : i <= j
         IN  rs[mostComplexPosition])

\* layoutCoordinateGenerator.allPlaced(rings)
allPlaced(rf, rs) == \A i \in DOMAIN rs : rf[rs[i]]

----------------------------------------------------------------------------
\* generate

\* the objects the placement steps write
Heap == [flags |-> flags, coord |-> coord, ringFlags |-> ringFlags, bond |-> bond,
         steps |-> steps, err |-> FALSE, treated |-> << >>]

Commit(st) ==
  /\ flags' = st.flags
  /\ coord' = st.coord
  /\ ringFlags' = st.ringFlags
  /\ bond' = st.bond
  /\ steps' = st.steps

molVars == << input, atoms, molBonds, bond, rings, probe, spliced, ringRing, anchors >>

\* the molecule but for the objects in the heap
frameVars == << input, atoms, molBonds, rings, probe, spliced, ringRing, anchors >>

ringSetVars == << ringset, mostComplexRing, thisRing, caller >>

nextVars == << placedAtoms, nextRingAtoms, lnrs >>

\* new ModelBond(source, target, optOrder, optStereo, optAromatic, optMolecule)
ModelBond(source, target, optOrder, optStereo, optAromatic, optMolecule) ==
  [source |-> source, target |-> target,
   order |-> IF optOrder # Null THEN optOrder ELSE SINGLE,
   stereo |-> IF optStereo # Null THEN optStereo ELSE NOT_STEREO,
   aromatic |-> IF optAromatic THEN optAromatic ELSE FALSE,
   molecule |-> IF optMolecule # Null THEN optMolecule ELSE Null]

NoFlags == [ISPLACED |-> FALSE, VISITED |-> FALSE, ISINRING |-> FALSE, ISALIPHATIC |-> FALSE]

NoCall == [entered |-> FALSE, nextBond |-> Null, ringAtoms |-> {}, before |-> << >>]

NoSplice == [called |-> FALSE, this |-> << >>, other |-> << >>, result |-> << >>]

\* no RingRing is looked at on its own
NoRing == [coord |-> << >>, center |-> [kind |-> "null"], returned |-> [kind |-> "none"]]

\* no pair of anchor atoms is looked at on its own
NoAnchors == [called |-> FALSE, coord |-> << >>, fused |-> Null, found |-> Null]

NoProbe == [called |-> FALSE, atom |-> Null, before |-> << >>, result |-> Null, back |-> Null]

Init ==
  /\ \E m \in 1..Len(Molecules), geom \in BOOLEAN :
       \E rot \in 0..(IF Len(Molecules[m].bonds) = 0 THEN 0 ELSE Len(Molecules[m].bonds) - 1) :
         /\ input = [mol |-> m, rot |-> rot, geom |-> geom]
         /\ atoms = [ i \in 1..Molecules[m].n |-> i ]
         /\ molBonds = Rotate([ i \in 1..Len(Molecules[m].bonds) |-> i ], rot)
         /\ bond = [ i \in 1..Len(Molecules[m].bonds) |->
                       ModelBond(Molecules[m].bonds[i][1], Molecules[m].bonds[i][2],
                                 SINGLE, NOT_STEREO, FALSE, m) ]
         /\ rings = Molecules[m].rings
         /\ flags = [ a \in 1..Molecules[m].n |-> NoFlags ]
         /\ coord = [ a \in 1..Molecules[m].n |-> "none" ]
         /\ coords = [ a \in 1..Molecules[m].n |-> "none" ]
         /\ ringFlags = [ r \in 1..Len(Molecules[m].rings) |-> FALSE ]
         /\ isPlaced = [ r \in 1..Len(Molecules[m].rings) |-> FALSE ]
  /\ sssr = << >>
  /\ ringsets = << >>
  /\ ringset = << >>
  /\ mostComplexRing = Null
  /\ thisRing = 0
  /\ caller = "none"
  /\ placedAtoms = << >>
  /\ nextRingAtoms = << >>
  /\ safetyCounter = 0
  /\ iterations = << >>
  /\ cntr = 0
  /\ pc = "reset"
  /\ outcome = "running"
  /\ steps = << >>
  /\ lnrs = NoCall
  /\ prev = [steps |-> << >>, placed |-> {}, outcome |-> "none"]
  /\ probe = NoProbe
  /\ spliced = NoSplice
  /\ ringRing = NoRing
  /\ anchors = NoAnchors
  /\ run = 1

\* lines 40-50: every flag of every atom is cleared
ResetFlags ==
  /\ pc = "reset"
  /\ flags' = [ a \in DOMAIN flags |-> NoFlags ]
  /\ safetyCounter' = 0
  /\ iterations' = << >>
  /\ steps' = Append(steps, Step("resetFlags", atoms))
  /\ pc' = "check"
  /\ UNCHANGED << molVars, coord, coords, ringFlags, isPlaced, sssr, ringsets, ringSetVars,
                  nextVars, cntr, outcome, prev, run >>

\* lines 56-59: a molecule of one atom
SingleAtom ==
  /\ pc = "check"
  /\ countAtoms = 1
  /\ coords' = [coords EXCEPT ![atoms[1]] = "origin"]
  /\ steps' = Append(steps, Step("return", << >>))
  /\ outcome' = "returned"
  /\ pc' = "done"
  /\ UNCHANGED << molVars, flags, coord, ringFlags, isPlaced, sssr, ringsets, ringSetVars,
                  nextVars, safetyCounter, iterations, cntr, prev, run >>

\* line 61, the test
NotConnectedTestMutant == fragmentCount > 2

NotConnectedTest == fragmentCount > 1

\* lines 61-63
NotConnected ==
  /\ pc = "check"
  /\ countAtoms # 1
  /\ NotConnectedTest
  /\ outcome' = "Molecule not connected."
  /\ pc' = "error"
  /\ UNCHANGED << molVars, flags, coord, coords, ringFlags, isPlaced, sssr, ringsets,
                  ringSetVars, nextVars, safetyCounter, iterations, cntr, steps, prev, run >>

\* molecule.getRings(): the molecule's rings, the same objects on every call
getRings == [ i \in DOMAIN rings |-> i ]

\* lines 67-73
DetectRings ==
  /\ pc = "check"
  /\ countAtoms # 1
  /\ ~NotConnectedTest
  /\ sssr' = getRings
  /\ ringsets' = GetPartitionedRings(getRings)
  /\ steps' = Append(steps, Step("getRings", << >>))
  /\ pc' = "seed"
  /\ UNCHANGED << molVars, flags, coord, coords, ringFlags, isPlaced, ringSetVars, nextVars,
                  safetyCounter, iterations, cntr, outcome, prev, run >>

expectedRingCount == countBonds - countAtoms + 1

\* lines 77-79: `ring.atoms.forEach, function(atom) {...}` is a comma expression; the
\* function is never called and no flag is written
flagRingAtoms(fl, rs) == fl

\* layoutCoordinateGenerator.ringSet, lines 293-315: up to the do-while loop
firstBondFrag(first) ==
  [atoms |-> << bond[first].source, bond[first].target >>, bonds |-> << first >>]

ringSetEntryMutant(st, rs) ==
  With(getMostComplexRing(rs),
       LAMBDA ring :
         IF ~st.ringFlags[ring]
         THEN placeRing(placeFirstBond(st, Ring(ring).bonds[1]), ring,
                        firstBondFrag(Ring(ring).bonds[1]))
         ELSE st)

ringSetEntry(st, rs) ==
  With(getMostComplexRing(rs),
       LAMBDA ring :
         IF ~st.ringFlags[ring]
         THEN With(placeRing(placeFirstBond(st, Ring(ring).bonds[1]), ring,
                             firstBondFrag(Ring(ring).bonds[1])),
                   LAMBDA st1 : IF st1.err THEN st1 ELSE [st1 EXCEPT !.ringFlags[ring] = TRUE])
         ELSE st)

\* control after a step that may have thrown a TypeError
Continue(st, next) ==
  IF st.err THEN pc' = "error" /\ outcome' = "TypeError"
  ELSE pc' = next /\ outcome' = outcome

\* the do-while loop of generate is entered (lines 107-109) or repeated (125-126)
IterationEnd == Append(iterations, { a \in DOMAIN flags' : flags'[a].ISPLACED })

EnterLoop(count) ==
  /\ safetyCounter' = count
  /\ cntr' = 0
  /\ iterations' = IF count = 1 THEN << >> ELSE IterationEnd

\* the test of lines 125-126 fails: the loop is left
ExitLoop ==
  /\ UNCHANGED << safetyCounter, cntr >>
  /\ iterations' = IterationEnd

\* lines 75-85: seeding with the largest ring system, up to the loop of ringSet
SeedRings ==
  /\ pc = "seed"
  /\ expectedRingCount > 0
  /\ \E sorted \in { SortByLength(ringsets) } :
       \E st \in { ringSetEntry(Log([Heap EXCEPT !.flags = flagRingAtoms(flags, sssr)],
                                     "seed", << >>),
                                 Last(sorted)) } :
         /\ ringsets' = sorted
         /\ ringset' = Last(sorted)
         /\ mostComplexRing' = getMostComplexRing(Last(sorted))
         /\ thisRing' = 0
         /\ caller' = "seed"
         /\ Commit(st)
         /\ Continue(st, "ringSet")
  /\ UNCHANGED << frameVars, coords, isPlaced, sssr, nextVars,
                  safetyCounter, iterations, cntr, prev, run >>

\* lines 318-320
placeAllConnectedRingsMutant(st) ==
  placeConnectedRings(
    placeConnectedRings(st, ringset, mostComplexRing, "FUSED"),
    ringset, mostComplexRing, "BRIDGED")

placeAllConnectedRings(st) ==
  placeConnectedRings(
    placeConnectedRings(
      placeConnectedRings(st, ringset, mostComplexRing, "FUSED"),
      ringset, mostComplexRing, "BRIDGED"),
    ringset, mostComplexRing, "SPIRO")

\* lines 322-323
NextRing == IF thisRing + 1 = Len(ringset) THEN 0 ELSE thisRing + 1

\* line 325
RingSetRepeat(st) ==
  /\ Commit(st)
  /\ Continue(st, IF allPlaced(st.ringFlags, ringset) THEN "ringSetDone" ELSE "ringSet")

\* lines 316-325: one iteration of the do-while loop of ringSet
RingSetIteration ==
  /\ pc = "ringSet"
  /\ thisRing' = NextRing
  /\ mostComplexRing' = ringset[NextRing + 1]
  /\ \E st \in { IF ringFlags[mostComplexRing] THEN placeAllConnectedRings(Heap) ELSE Heap } :
       RingSetRepeat(st)
  /\ UNCHANGED << frameVars, coords, isPlaced, sssr, ringsets, ringset, caller, nextVars,
                  safetyCounter, iterations, cntr, prev, run >>

\* the atoms layoutNextRingSystem translates and rotates, lines 808-837
Moved(st, rs) ==
  RemoveDuplicates(st.treated \o Flatten([ i \in 1..Len(rs) |-> Ring(rs[i]).atoms ]))

Transform(co, as) ==
  [ a \in DOMAIN co |-> IF Includes(as, a) THEN "computed" ELSE co[a] ]

\* the test of generate's do-while loop, lines 125-126
RepeatMutant(fl) == ~atomsAllPlaced(fl) /\ safetyCounter <= countAtoms + 1

Repeat(fl) == ~atomsAllPlaced(fl) /\ safetyCounter <= countAtoms

\* ringSet has returned: lines 87-91 and 107-109 of generate for the seed, lines 802-839
\* of layoutNextRingSystem and 125-126 of generate for a later ring system
RingSetReturn ==
  /\ pc = "ringSetDone"
  /\ isPlaced' = [ r \in DOMAIN isPlaced |-> IF Includes(ringset, r) THEN TRUE ELSE isPlaced[r] ]
  /\ IF caller = "seed"
     THEN \E st \in { placeRingSubstituents(Heap, ringset) } :
            /\ Commit(st)
            /\ EnterLoop(1)
            /\ pc' = "aliphatics"
     ELSE \E st1 \in { placeRingSubstituents(
                          [Heap EXCEPT !.flags = markNotPlaced(@, placedAtoms)], ringset) } :
            \E st \in { [st1 EXCEPT !.flags = markPlaced(@, placedAtoms),
                                     !.coord = Transform(@, Moved(st1, ringset))] } :
              /\ Commit(st)
              /\ IF Repeat(st.flags)
                 THEN EnterLoop(safetyCounter + 1) /\ pc' = "aliphatics"
                 ELSE ExitLoop /\ pc' = "overlap"
  /\ UNCHANGED << frameVars, coords, sssr, ringsets, ringSetVars, nextVars, outcome, prev, run >>

\* lines 93-104 and 107-109: seeding with the longest chain
SeedChain ==
  /\ pc = "seed"
  /\ ~(expectedRingCount > 0)
  /\ \E longestChain \in { getInitialLongestChain } :
       \E st \in { placeLinearChain(
                      [Log(Heap, "seed", << >>) EXCEPT
                         !.coord[longestChain[1]] = "origin",
                         !.flags[longestChain[1]].ISPLACED = TRUE],
                      longestChain) } :
         Commit(st)
  /\ EnterLoop(1)
  /\ pc' = "aliphatics"
  /\ UNCHANGED << frameVars, coords, isPlaced, sssr, ringsets, ringSetVars, nextVars, outcome,
                  prev, run >>

\* layoutCoordinateGenerator.getNextAtomWithAliphaticUnplacedNeigbors
getNextAtomWithAliphaticUnplacedNeigbors(fl) ==
  LET hit == Find(molBonds, LAMBDA b : fl[bond[b].source].ISPLACED # fl[bond[b].target].ISPLACED)
  IN  IF hit = Null THEN Null
      ELSE IF fl[bond[hit].source].ISPLACED THEN bond[hit].source ELSE bond[hit].target

\* layoutCoordinateGenerator.getAtoms
getAtoms(fl, atom, placed) ==
  SelectSeq(Neighbours(atom), LAMBDA x : fl[x].ISPLACED = placed)

\* the body of the do-while loop of handleAliphatics, lines 212-243, when an atom was found
placeAliphatics(st, at) ==
  With(getLongestUnplacedChain(st.flags, at),
       LAMBDA longestUnplacedChain :
         With(IF Len(getAtoms(st.flags, at, TRUE)) > 1
              THEN distributePartners(st, at, getAtoms(st.flags, at, FALSE))
              ELSE IF Len(getAtoms(st.flags, at, TRUE)) = 0 THEN Throw(st)
              ELSE st,
              LAMBDA st1 :
                IF st1.err THEN st1
                ELSE placeLinearChain(
                       [st1 EXCEPT !.flags = markNotPlaced(@, Tail(longestUnplacedChain))],
                       longestUnplacedChain)))

\* lines 211-244: one iteration of the do-while loop of handleAliphatics
AliphaticsIteration ==
  /\ pc = "aliphatics"
  /\ cntr' = cntr + 1
  /\ \E st0 \in { IF cntr = 0 THEN Log(Heap, "handleAliphatics", << >>) ELSE Heap },
        at \in { getNextAtomWithAliphaticUnplacedNeigbors(flags) } :
       \E done \in { at = Null \/ ~(Len(getLongestUnplacedChain(flags, at)) > 1) } :
         \E st \in { IF done THEN st0 ELSE placeAliphatics(st0, at) } :
           /\ Commit(st)
           /\ Continue(st, IF ~done /\ cntr + 1 <= countAtoms THEN "aliphatics" ELSE "nextRing")
  /\ UNCHANGED << frameVars, coords, isPlaced, sssr, ringsets, ringSetVars, nextVars,
                  safetyCounter, iterations, prev, run >>

\* the ring atoms a bond joins to a PLACED atom while they are not PLACED themselves
UnplacedRingAtoms(fl) ==
  { a \in SeqToSet(atoms) :
      /\ \E r \in DOMAIN rings : Includes(Ring(r).atoms, a)
      /\ ~fl[a].ISPLACED
      /\ \E i \in DOMAIN molBonds :
           LET o == otherAtom(bond[molBonds[i]], a) IN o # Null /\ fl[o].ISPLACED }

\* lines 779-800 of layoutNextRingSystem, and lines 125-126 of generate when no bond
\* was found
LayoutNextRingSystem ==
  /\ pc = "nextRing"
  /\ \E fl \in { resetUnplacedRingAtoms(flags, sssr) } :
     LET placed == SelectSeq(atoms, LAMBDA a : fl[a].ISPLACED)
         nextBond == findNextRingBondWithUnplacedRingAtom(fl, molBonds)
         st0 == Log([Heap EXCEPT !.flags = fl], "layoutNextRingSystem", << >>)
     IN  /\ lnrs' = [entered |-> TRUE, nextBond |-> nextBond,
                     ringAtoms |-> UnplacedRingAtoms(fl), before |-> isPlaced]
         /\ IF nextBond # Null
            THEN LET ringAtom == Find(<< bond[nextBond].source, bond[nextBond].target >>,
                                      LAMBDA a : fl[a].ISINRING /\ ~fl[a].ISPLACED)
                     chainAtom == otherAtom(bond[nextBond], ringAtom)
                     nextRingSet ==
                       Head(SelectSeq(ringsets, LAMBDA rs :
                              \E i \in DOMAIN rs : Includes(Ring(rs[i]).atoms, ringAtom)))
                 IN  \E st \in { ringSetEntry(st0, nextRingSet) } :
                     /\ placedAtoms' = placed
                     /\ nextRingAtoms' = << ringAtom, chainAtom >>
                     /\ ringset' = nextRingSet
                     /\ mostComplexRing' = getMostComplexRing(nextRingSet)
                     /\ thisRing' = 0
                     /\ caller' = "next"
                     /\ Commit(st)
                     /\ Continue(st, "ringSet")
                     /\ UNCHANGED << safetyCounter, cntr, iterations >>
            ELSE /\ Commit(st0)
                 /\ outcome' = outcome
                 /\ IF Repeat(fl)
                    THEN EnterLoop(safetyCounter + 1) /\ pc' = "aliphatics"
                    ELSE ExitLoop /\ pc' = "overlap"
                 /\ UNCHANGED << placedAtoms, nextRingAtoms, ringSetVars >>
  /\ UNCHANGED << frameVars, coords, isPlaced, sssr, ringsets, prev, run >>

\* line 129: layoutOverlapResolver.resolveOverlap(molecule, sssr); it moves placed atoms
\* apart and clears no flag
ResolveOverlap ==
  /\ pc = "overlap"
  /\ steps' = Append(steps, Step("resolveOverlap", << >>))
  /\ pc' = "return"
  /\ UNCHANGED << molVars, flags, coord, coords, ringFlags, isPlaced, sssr, ringsets,
                  ringSetVars, nextVars, safetyCounter, iterations, cntr, outcome, prev, run >>

\* line 140
Return ==
  /\ pc = "return"
  /\ steps' = Append(steps, Step("return", << >>))
  /\ outcome' = "returned"
  /\ pc' = "done"
  /\ UNCHANGED << molVars, flags, coord, coords, ringFlags, isPlaced, sssr, ringsets,
                  ringSetVars, nextVars, safetyCounter, iterations, cntr, prev, run >>

PlacedAtoms == { a \in SeqToSet(atoms) : flags[a].ISPLACED }

\* generate is invoked again on the same molecule object
Regenerate ==
  /\ pc \in {"done", "error"}
  /\ run < MaxRuns
  /\ run' = run + 1
  /\ prev' = [steps |-> steps, placed |-> PlacedAtoms, outcome |-> outcome]
  /\ steps' = << >>
  /\ outcome' = "running"
  /\ pc' = "reset"
  /\ sssr' = << >>
  /\ ringsets' = << >>
  /\ ringset' = << >>
  /\ mostComplexRing' = Null
  /\ thisRing' = 0
  /\ caller' = "none"
  /\ placedAtoms' = << >>
  /\ nextRingAtoms' = << >>
  /\ lnrs' = NoCall
  /\ cntr' = 0
  /\ UNCHANGED << molVars, flags, coord, coords, ringFlags, isPlaced, safetyCounter, iterations >>

Next ==
  \/ ResetFlags
  \/ SingleAtom
  \/ NotConnected
  \/ DetectRings
  \/ SeedRings
  \/ RingSetIteration
  \/ RingSetReturn
  \/ SeedChain
  \/ AliphaticsIteration
  \/ LayoutNextRingSystem
  \/ ResolveOverlap
  \/ Return
  \/ Regenerate

Spec == Init /\ [][Next]_vars

\* generate is one synchronous call: a step that can be taken is taken
SpecFair == Spec /\ WF_vars(Next)

(***************************************************************************)
(* ModelBond on its own: one bond between any two atoms, and otherAtom     *)
(* called on it with any atom.                                             *)
(***************************************************************************)
InitBond ==
  /\ \E source \in 1..MaxAtom, target \in 1..MaxAtom, order \in {SINGLE, DOUBLE},
        aromatic \in BOOLEAN :
       bond = << ModelBond(source, target, order, NOT_STEREO, aromatic, Null) >>
  /\ input = [mol |-> Null, rot |-> 0, geom |-> FALSE]
  /\ atoms = [ i \in 1..MaxAtom |-> i ]
  /\ molBonds = << 1 >>
  /\ rings = << >>
  /\ flags = [ a \in 1..MaxAtom |-> NoFlags ]
  /\ coord = [ a \in 1..MaxAtom |-> "none" ]
  /\ coords = [ a \in 1..MaxAtom |-> "none" ]
  /\ ringFlags = << >>
  /\ isPlaced = << >>
  /\ sssr = << >>
  /\ ringsets = << >>
  /\ ringset = << >>
  /\ mostComplexRing = Null
  /\ thisRing = 0
  /\ caller = "none"
  /\ placedAtoms = << >>
  /\ nextRingAtoms = << >>
  /\ safetyCounter = 0
  /\ iterations = << >>
  /\ cntr = 0
  /\ pc = "bond"
  /\ outcome = "none"
  /\ steps = << >>
  /\ lnrs = NoCall
  /\ prev = [steps |-> << >>, placed |-> {}, outcome |-> "none"]
  /\ probe = NoProbe
  /\ spliced = NoSplice
  /\ ringRing = NoRing
  /\ anchors = NoAnchors
  /\ run = 1

\* bond.otherAtom(atom), and otherAtom again on what it returned
CallOtherAtom ==
  /\ pc = "bond"
  /\ \E atom \in 1..MaxAtom :
       probe' = [called |-> TRUE, atom |-> atom, before |-> bond,
                 result |-> otherAtom(bond[1], atom),
                 back |-> IF otherAtom(bond[1], atom) = Null THEN Null
                          ELSE otherAtom(bond[1], otherAtom(bond[1], atom))]
  /\ UNCHANGED << input, atoms, molBonds, bond, rings, flags, coord, coords, ringFlags,
                  isPlaced, sssr, ringsets, ringSetVars, placedAtoms, nextRingAtoms,
                  safetyCounter, iterations, cntr, pc, outcome, steps,
                  lnrs, prev, spliced, ringRing, anchors, run >>

NextBond == CallOtherAtom

SpecBond == InitBond /\ [][NextBond]_vars

(***************************************************************************)
(* A RingRing on its own: getCenter and resetRingCenter, called between     *)
(* writes to the coord of the ring's atoms.  A center is kept as the sums   *)
(* avgX and avgY together with the number of atoms they are divided by.     *)
(***************************************************************************)
Sum(f) == With(f, LAMBDA g :
  LET RECURSIVE S(_)
      S(n) == IF n = 0 THEN 0 ELSE g[n] + S(n - 1)
  IN  S(Len(g)))

\* lines 913-919: new MathCoordinate(avgX / this.atoms.length, avgY / this.atoms.length)
Mean(co) == [kind |-> "MathCoordinate",
             x |-> Sum([ j \in DOMAIN co |-> co[j].x ]),
             y |-> Sum([ j \in DOMAIN co |-> co[j].y ]),
             per |-> Len(co)]

\* RingRing.prototype.getCenter: the ring after the call (ring.returned is what the
\* call returned)
getCenter(ring) ==
  IF ring.center.kind \in {"null", "undefined"}
  THEN [ring EXCEPT !.center = Mean(ring.coord), !.returned = Mean(ring.coord)]
  ELSE [ring EXCEPT !.returned = ring.center]

\* RingRing.prototype.resetRingCenter
resetRingCenter(ring) == [ring EXCEPT !.center = [kind |-> "undefined"], !.returned = [kind |-> "none"]]

Coordinates == [x : 0..MaxCoord, y : 0..MaxCoord]

InitCenter ==
  /\ \E n \in 3..MaxRingAtoms : \E co \in [1..n -> Coordinates] :
       ringRing = [coord |-> co, center |-> [kind |-> "null"], returned |-> [kind |-> "none"]]
  /\ anchors = NoAnchors
  /\ spliced = NoSplice
  /\ input = [mol |-> Null, rot |-> 0, geom |-> FALSE]
  /\ atoms = << >>
  /\ molBonds = << >>
  /\ bond = << >>
  /\ rings = << >>
  /\ flags = << >>
  /\ coord = << >>
  /\ coords = << >>
  /\ ringFlags = << >>
  /\ isPlaced = << >>
  /\ sssr = << >>
  /\ ringsets = << >>
  /\ ringset = << >>
  /\ mostComplexRing = Null
  /\ thisRing = 0
  /\ caller = "none"
  /\ placedAtoms = << >>
  /\ nextRingAtoms = << >>
  /\ safetyCounter = 0
  /\ iterations = << >>
  /\ cntr = 0
  /\ pc = "center"
  /\ outcome = "none"
  /\ steps = << >>
  /\ lnrs = NoCall
  /\ prev = [steps |-> << >>, placed |-> {}, outcome |-> "none"]
  /\ probe = NoProbe
  /\ run = 1

centerVars == << input, atoms, molBonds, bond, rings, flags, coord, coords, ringFlags,
                isPlaced, sssr, ringsets, ringSetVars, placedAtoms, nextRingAtoms,
                safetyCounter, iterations, cntr, pc, outcome,
                steps, lnrs, prev, probe, spliced, anchors,
                run >>

\* ring.getCenter()
CallGetCenter ==
  /\ pc = "center"
  /\ ringRing' = getCenter(ringRing)
  /\ UNCHANGED centerVars

\* ring.resetRingCenter()
CallResetRingCenter ==
  /\ pc = "center"
  /\ ringRing' = resetRingCenter(ringRing)
  /\ UNCHANGED centerVars

\* a write to the coord of one atom of the ring, as placement (populatePolygonCorners,
\* placeFirstBond) and lines 824-836 of layoutNextRingSystem make it: atom.coord is
\* written and nothing of the ring is touched
WriteCoord ==
  /\ pc = "center"
  /\ \E j \in DOMAIN ringRing.coord : \E c \in Coordinates :
       /\ c # ringRing.coord[j]
       /\ ringRing' = [ringRing EXCEPT !.coord[j] = c, !.returned = [kind |-> "none"]]
  /\ UNCHANGED centerVars

NextCenter == CallGetCenter \/ CallResetRingCenter \/ WriteCoord

SpecCenter == InitCenter /\ [][NextCenter]_vars

(***************************************************************************)
(* The choice of the atom a sweep starts at, on its own: two anchor atoms   *)
(* (numbered 1 and 2) with their coords.                                    *)
(***************************************************************************)
\* layoutRingPlacer.findStartAtom with atom1.coord = co[1], atom2.coord = co[2]
StartAtomFound(co) ==
  IF co[1].x - co[2].x = 0
  THEN IF co[1].y > co[2].y THEN 1 ELSE 2
  ELSE IF co[1].x > co[2].x THEN 1 ELSE 2

\* lines 580-611 of placeFusedRing with bondAtom1.coord = co[1], bondAtom2.coord = co[2]
StartAtomFused(co) ==
  IF co[1].x - co[2].x = 0
  THEN IF co[1].y > co[2].y THEN 1 ELSE 2
  ELSE IF co[1].x > co[2].x THEN 1 ELSE 2

AnchorCoordinates == [x : 0..MaxAnchorCoord, y : 0..MaxAnchorCoord]

InitStart ==
  /\ \E co \in [1..2 -> AnchorCoordinates] :
       anchors = [called |-> FALSE, coord |-> co, fused |-> Null, found |-> Null]
  /\ ringRing = NoRing
  /\ spliced = NoSplice
  /\ input = [mol |-> Null, rot |-> 0, geom |-> FALSE]
  /\ atoms = << 1, 2 >>
  /\ molBonds = << >>
  /\ bond = << >>
  /\ rings = << >>
  /\ flags = << >>
  /\ coord = << >>
  /\ coords = << >>
  /\ ringFlags = << >>
  /\ isPlaced = << >>
  /\ sssr = << >>
  /\ ringsets = << >>
  /\ ringset = << >>
  /\ mostComplexRing = Null
  /\ thisRing = 0
  /\ caller = "none"
  /\ placedAtoms = << >>
  /\ nextRingAtoms = << >>
  /\ safetyCounter = 0
  /\ iterations = << >>
  /\ cntr = 0
  /\ pc = "start"
  /\ outcome = "none"
  /\ steps = << >>
  /\ lnrs = NoCall
  /\ prev = [steps |-> << >>, placed |-> {}, outcome |-> "none"]
  /\ probe = NoProbe
  /\ run = 1

\* the start atom is chosen for the two anchors by findStartAtom and by placeFusedRing
ChooseStartAtom ==
  /\ pc = "start"
  /\ ~anchors.called
  /\ anchors' = [anchors EXCEPT !.called = TRUE,
                                !.found = StartAtomFound(anchors.coord),
                                !.fused = StartAtomFused(anchors.coord)]
  /\ UNCHANGED << input, atoms, molBonds, bond, rings, flags, coord, coords, ringFlags,
                  isPlaced, sssr, ringsets, ringSetVars, placedAtoms, nextRingAtoms,
                  safetyCounter, iterations, cntr, pc, outcome, steps, lnrs, prev, probe, spliced,
                  ringRing, run >>

NextStart == ChooseStartAtom

SpecStart == InitStart /\ [][NextStart]_vars

(***************************************************************************)
(* RingPathEdge on its own: this.splice(other) for two path edges.         *)
(***************************************************************************)
Reverse(s) == [ i \in 1..Len(s) |-> s[Len(s) + 1 - i] ]

\* RingPathEdge.prototype.isCycle
isCycle(edge) == Len(edge) > 2 /\ edge[1] = Last(edge)

\* RingPathEdge.prototype.isRealPath
isRealPath(as) ==
  \A i \in 2..(Len(as) - 1) : \A j \in 2..(Len(as) - 1) : i # j => as[i] # as[j]

\* RingPathEdge.prototype.getIntersection; Null when it throws
getIntersection(this, others) ==
  IF Last(this) = others[1] \/ Last(this) = Last(others) THEN Last(this)
  ELSE IF this[1] = others[1] \/ this[1] = Last(others) THEN this[1]
  ELSE Null

\* lines 46-64 of splice: the atoms of this, turned so that the intersection comes
\* last, and then the atoms of other from the intersection on
newAtoms(this, other, intersection) ==
  (IF this[1] = intersection THEN Reverse(this) ELSE this)
    \o (IF other[1] = intersection THEN Tail(other)
        ELSE Reverse(SubSeq(other, 1, Len(other) - 1)))

\* RingPathEdge.prototype.splice: the new path edge, null, or the error thrown
spliceMutant(this, other) ==
  IF getIntersection(this, other) = Null
  THEN [kind |-> "error", atoms |-> << >>]
  ELSE IF ~isRealPath(newAtoms(this, other, getIntersection(this, other)))
  THEN [kind |-> "null", atoms |-> << >>]
  ELSE [kind |-> "edge", atoms |-> this \o Tail(other)]

splice(this, other) ==
  IF getIntersection(this, other) = Null
  THEN [kind |-> "error", atoms |-> << >>]
  ELSE IF ~isRealPath(newAtoms(this, other, getIntersection(this, other)))
  THEN [kind |-> "null", atoms |-> << >>]
  ELSE [kind |-> "edge", atoms |-> newAtoms(this, other, getIntersection(this, other))]

\* the path edges of up to MaxPathLen atoms: walks that visit no atom twice
PathEdges ==
  { e \in UNION { [1..n -> 1..MaxPathAtom] : n \in 2..MaxPathLen } :
      \A i \in DOMAIN e : \A j \in DOMAIN e : i # j => e[i] # e[j] }

InitPath ==
  /\ \E this \in PathEdges, other \in PathEdges :
       spliced = [called |-> FALSE, this |-> this, other |-> other, result |-> << >>]
  /\ input = [mol |-> Null, rot |-> 0, geom |-> FALSE]
  /\ atoms = [ i \in 1..MaxPathAtom |-> i ]
  /\ molBonds = << >>
  /\ bond = << >>
  /\ rings = << >>
  /\ flags = [ a \in 1..MaxPathAtom |-> NoFlags ]
  /\ coord = [ a \in 1..MaxPathAtom |-> "none" ]
  /\ coords = [ a \in 1..MaxPathAtom |-> "none" ]
  /\ ringFlags = << >>
  /\ isPlaced = << >>
  /\ sssr = << >>
  /\ ringsets = << >>
  /\ ringset = << >>
  /\ mostComplexRing = Null
  /\ thisRing = 0
  /\ caller = "none"
  /\ placedAtoms = << >>
  /\ nextRingAtoms = << >>
  /\ safetyCounter = 0
  /\ iterations = << >>
  /\ cntr = 0
  /\ pc = "path"
  /\ outcome = "none"
  /\ steps = << >>
  /\ lnrs = NoCall
  /\ prev = [steps |-> << >>, placed |-> {}, outcome |-> "none"]
  /\ probe = NoProbe
  /\ ringRing = NoRing
  /\ anchors = NoAnchors
  /\ run = 1

\* this.splice(other)
CallSplice ==
  /\ pc = "path"
  /\ ~spliced.called
  /\ spliced' = [spliced EXCEPT !.called = TRUE,
                                !.result = splice(spliced.this, spliced.other)]
  /\ UNCHANGED << input, atoms, molBonds, bond, rings, flags, coord, coords, ringFlags,
                  isPlaced, sssr, ringsets, ringSetVars, placedAtoms, nextRingAtoms,
                  safetyCounter, iterations, cntr, pc, outcome, steps,
                  lnrs, prev, probe, ringRing, anchors, run >>

NextPath == CallSplice

SpecPath == InitPath /\ [][NextPath]_vars

(***************************************************************************)
(* layoutRingPlacer.placeRing on its own: one ring of n atoms 1..n, whose   *)
(* bond i joins atom i and the next atom round the ring, with ring.bonds in *)
(* any order, attached by a shared fragment of k atoms in a row that are    *)
(* PLACED already.                                                          *)
(***************************************************************************)
BondOrders(n) ==
  { f \in [1..n -> 1..n] : \A i \in 1..n : \A j \in 1..n : i # j => f[i] # f[j] }

InitRing ==
  /\ \E n \in 3..MaxRingSize : \E order \in BondOrders(n), geom \in BOOLEAN :
       /\ input = [mol |-> Null, rot |-> 0, geom |-> geom]
       /\ atoms = [ i \in 1..n |-> i ]
       /\ molBonds = [ i \in 1..n |-> i ]
       /\ bond = [ i \in 1..n |->
                     ModelBond(i, (i % n) + 1, SINGLE, NOT_STEREO, FALSE, Null) ]
       /\ rings = << R([ i \in 1..n |-> i ], order) >>
       /\ flags = [ a \in 1..n |-> NoFlags ]
       /\ coord = [ a \in 1..n |-> "none" ]
       /\ coords = [ a \in 1..n |-> "none" ]
  /\ ringFlags = << FALSE >>
  /\ isPlaced = << FALSE >>
  /\ sssr = << >>
  /\ ringsets = << >>
  /\ ringset = << >>
  /\ mostComplexRing = Null
  /\ thisRing = 0
  /\ caller = "none"
  /\ placedAtoms = << >>
  /\ nextRingAtoms = << >>
  /\ safetyCounter = 0
  /\ iterations = << >>
  /\ cntr = 0
  /\ pc = "ring"
  /\ outcome = "none"
  /\ steps = << >>
  /\ lnrs = NoCall
  /\ prev = [steps |-> << >>, placed |-> {}, outcome |-> "none"]
  /\ probe = NoProbe
  /\ spliced = NoSplice
  /\ ringRing = NoRing
  /\ anchors = NoAnchors
  /\ run = 1

\* the k atoms in a row from atom p on, in the order of ring.atoms or against it, and
\* the ring bonds between them in the order of ring.bonds (getIntersectingAtoms,
\* getIntersectingBonds; for the seed ring, lines 298-301 of ringSet)
SharedFrag(p, k, rev) ==
  With({ ((p + i - 1) % Len(atoms)) + 1 : i \in 0..(k - 1) },
       LAMBDA shared :
         [atoms |-> With(SelectSeq(Ring(1).atoms, LAMBDA a : a \in shared),
                         LAMBDA as : IF rev THEN Reverse(as) ELSE as),
          bonds |-> SelectSeq(Ring(1).bonds,
                              LAMBDA b : bond[b].source \in shared /\ bond[b].target \in shared)])

\* placeRing(ring, sharedFrag, ...) with the atoms of sharedFrag placed before
CallPlaceRing ==
  /\ pc = "ring"
  /\ \E p \in 1..Len(atoms), k \in 1..(Len(atoms) - 1), rev \in BOOLEAN :
       \E sharedFrag \in { SharedFrag(p, k, rev) } :
         \E st \in { placeRing(PositionAll(Heap, sharedFrag.atoms), 1, sharedFrag) } :
           /\ Commit(st)
           /\ pc' = IF st.err THEN "error" ELSE "ringDone"
           /\ outcome' = IF st.err THEN "TypeError" ELSE outcome
  /\ UNCHANGED << frameVars, coords, isPlaced, sssr, ringsets, ringSetVars, nextVars,
                  safetyCounter, iterations, cntr, prev, run >>

NextRingCall == CallPlaceRing

SpecRing == InitRing /\ [][NextRingCall]_vars

(***************************************************************************)
(* Properties of generate and of ModelBond                                 *)
(***************************************************************************)

\* generate has ended, by a return or by a throw
Ended == pc \in {"done", "error"}

\* the atom is a member of some ring of the molecule
InSomeRing(a) == \E r \in DOMAIN rings : Includes(Ring(r).atoms, a)

\* the molecule object as it was handed to generate
InputBonds ==
  [ i \in 1..Len(Molecules[input.mol].bonds) |->
      ModelBond(Molecules[input.mol].bonds[i][1], Molecules[input.mol].bonds[i][2],
                SINGLE, NOT_STEREO, FALSE, input.mol) ]

\* C1: when generate returns for a molecule of exactly one atom, the coord field of
\* that atom is the point (0,0)
C1_SingleAtomAtOrigin ==
  (pc = "done" /\ countAtoms = 1) => coord[atoms[1]] = "origin"

\* C2: a molecule of more than one atom and more than one fragment only ever ends in
\* the error "Molecule not connected.", and no coordinate is written, no atom is
\* flagged PLACED and nothing beyond the flag reset is invoked for it
C2_NotConnectedFails ==
  (countAtoms > 1 /\ fragmentCount > 1) =>
    /\ pc \in {"reset", "check", "error"}
    /\ pc = "error" => outcome = "Molecule not connected."
    /\ \A a \in DOMAIN flags :
         coord[a] = "none" /\ coords[a] = "none" /\ ~flags[a].ISPLACED
    /\ \A i \in DOMAIN steps : steps[i].op = "resetFlags"
    /\ sssr = << >> /\ \A r \in DOMAIN ringFlags : ~ringFlags[r] /\ ~isPlaced[r]

C2_Witness ==
  /\ pc = "error" /\ outcome = "Molecule not connected."
  /\ countAtoms > 1 /\ fragmentCount > 1 /\ Len(rings) > 0

\* C3: when generate returns normally for a connected molecule, every atom has a
\* coordinate and is flagged PLACED
C3_AllAtomsPlaced ==
  (pc = "done" /\ fragmentCount = 1 /\ countAtoms > 1) =>
    \A a \in DOMAIN flags : coord[a] # "none" /\ flags[a].ISPLACED

\* C4: for a connected molecule every run of generate that starts also ends: the
\* loops of generate, handleAliphatics and ringSet exit
C4_Terminates ==
  (pc = "reset" /\ fragmentCount = 1) ~> Ended

C4_Witness ==
  /\ pc = "done" /\ fragmentCount = 1 /\ Len(rings) > 2
  /\ safetyCounter > 1 /\ thisRing > 0 /\ cntr > 1

\* C5: a second run of generate on the same molecule object ends as the first one
\* did: the same placement steps, the same atoms flagged PLACED, the same outcome
C5_SecondRunSame ==
  (run > 1 /\ Ended) =>
    steps = prev.steps /\ PlacedAtoms = prev.placed /\ outcome = prev.outcome

\* C6: generate leaves every field of every bond and the molecule's atom and bond
\* sequences as they were handed to it
C6_BondsUnchanged ==
  pc # "bond" =>
    /\ bond = InputBonds
    /\ atoms = [ i \in 1..Molecules[input.mol].n |-> i ]
    /\ molBonds = Rotate([ i \in 1..Len(Molecules[input.mol].bonds) |-> i ], input.rot)
    /\ rings = Molecules[input.mol].rings

C6_Witness ==
  /\ pc = "done" /\ Len(rings) > 0 /\ \E i \in DOMAIN steps : steps[i].op = "placeFirstBond"

\* C7: otherAtom returns the atom at the other end of the bond when asked about an
\* endpoint and null when asked about any other atom, leaves the bond as it was, and
\* on a bond with two distinct endpoints brings an endpoint back to itself when
\* applied twice
C7_OtherAtom ==
  (pc = "bond" /\ probe.called) =>
    /\ probe.atom = bond[1].source => probe.result = bond[1].target
    /\ (probe.atom = bond[1].target /\ probe.atom # bond[1].source) =>
         probe.result = bond[1].source
    /\ probe.atom \notin {bond[1].source, bond[1].target} => probe.result = Null
    /\ bond = probe.before
    /\ (bond[1].source # bond[1].target /\ probe.atom \in {bond[1].source, bond[1].target}) =>
         probe.back = probe.atom

C7_Witness ==
  /\ pc = "bond" /\ probe.called /\ bond[1].source # bond[1].target
  /\ probe.atom = bond[1].target /\ probe.result = bond[1].source /\ probe.back = probe.atom

\* the phase a logged step belongs to: 1 flag reset, 2 seeding, 3 alternation loop,
\* 4 overlap resolution, 5 return; 0 for the placements made inside a phase
Phase(op) ==
  CASE op = "resetFlags" -> 1
    [] op = "seed" -> 2
    [] op \in {"handleAliphatics", "layoutNextRingSystem"} -> 3
    [] op = "resolveOverlap" -> 4
    [] op = "return" -> 5
    [] OTHER -> 0

Phases == SelectSeq([ i \in DOMAIN steps |-> Phase(steps[i].op) ], LAMBDA p : p # 0)

Overlaps == Len(SelectSeq(Phases, LAMBDA p : p = 4))

\* C8: a run over a connected molecule of two atoms or more goes through flag reset,
\* seeding, alternation loop, overlap resolution and return in this order, with the
\* overlap resolver invoked exactly once; it is not invoked for a single atom or for
\* a molecule that is not connected
C8_PhaseOrder ==
  (Ended /\ input.mol # Null) =>
    IF countAtoms > 1 /\ fragmentCount = 1
    THEN /\ \A i \in 1..(Len(Phases) - 1) : Phases[i] <= Phases[i + 1]
         /\ \A p \in 1..5 : \E i \in DOMAIN Phases : Phases[i] = p
         /\ Overlaps = 1
    ELSE Overlaps = 0

\* C9: once generate has seeded a connected molecule with bonds - atoms + 1 > 0, the
\* atoms flagged ISINRING are exactly the members of the rings
C9_RingAtomsFlagged ==
  (pc \in {"ringSet", "ringSetDone", "aliphatics", "nextRing", "overlap", "return", "done"}
     /\ expectedRingCount > 0) =>
    \A a \in DOMAIN flags : flags[a].ISINRING <=> InSomeRing(a)

\* layoutNextRingSystem has just returned to generate
AfterLayoutNextRingSystem ==
  lnrs.entered /\ ((pc = "aliphatics" /\ cntr = 0) \/ pc = "overlap")

\* C10: when layoutNextRingSystem searches and a bond joins a PLACED atom to a ring
\* atom that is not PLACED, the search returns such a bond and on return every ring
\* of that atom's ring system is marked placed with all its atoms PLACED; when there
\* is no such bond, no ring is placed
C10_NextRingSystemPlaced ==
  AfterLayoutNextRingSystem =>
    IF lnrs.ringAtoms # {}
    THEN /\ lnrs.nextBond # Null
         /\ \E a \in lnrs.ringAtoms :
              \A i \in DOMAIN ringsets : \A j \in DOMAIN ringsets[i] :
                (\E k \in DOMAIN ringsets[i] : Includes(Ring(ringsets[i][k]).atoms, a)) =>
                  /\ isPlaced[ringsets[i][j]]
                  /\ \A x \in SeqToSet(Ring(ringsets[i][j]).atoms) : flags[x].ISPLACED
    ELSE isPlaced = lnrs.before

\* the number of other rings of the system rs that share an atom with its i-th ring
SharingRings(rs, i) ==
  Cardinality({ j \in DOMAIN rs : j # i /\ ShareAtom(rs[i], rs[j]) })

\* the rings of the system that ringSet has flagged placed
FlaggedRings == { i \in DOMAIN ringset : ringFlags[ringset[i]] }

\* C11: the ring getMostComplexRing returns for a ring system (the one ringSet places
\* and flags first) shares atoms with the greatest number of other rings of the
\* system, and is the first such ring in the system's order
C11_MostComplexRing ==
  (run = 1 /\ pc = "ringSet" /\ caller = "seed" /\ Cardinality(FlaggedRings) = 1) =>
    \A i \in FlaggedRings :
      /\ mostComplexRing = ringset[i]
      /\ \A j \in DOMAIN ringset : SharingRings(ringset, j) <= SharingRings(ringset, i)
      /\ \A j \in 1..(i - 1) : SharingRings(ringset, j) < SharingRings(ringset, i)

StrategyOps == {"placeFusedRing", "placeSpiroRing", "placeBridgedRing"}

\* C12: every call of placeRing for a ring runs exactly one placement strategy, the
\* one the number of shared atoms selects: 1 spiro, 2 fused, 3 or more bridged; no
\* strategy runs on a fragment of 0 atoms
C12_StrategyBySharedAtoms ==
  \A i \in DOMAIN steps :
    /\ steps[i].op = "placeRing" =>
         /\ i < Len(steps) /\ steps[i + 1].op \in StrategyOps
         /\ i + 1 < Len(steps) => steps[i + 2].op \notin StrategyOps
    /\ steps[i].op \in StrategyOps =>
         /\ i > 1 /\ steps[i - 1].op = "placeRing"
         /\ steps[i].op = "placeSpiroRing" <=> Len(steps[i].atoms) = 1
         /\ steps[i].op = "placeFusedRing" <=> Len(steps[i].atoms) = 2
         /\ steps[i].op = "placeBridgedRing" <=> Len(steps[i].atoms) > 2

C12_Witness ==
  /\ pc = "done"
  /\ \E i \in DOMAIN steps : steps[i].op = "placeSpiroRing" /\ Len(steps[i].atoms) = 1
  /\ \E i \in DOMAIN steps :
       /\ steps[i].op = "placeFusedRing" /\ i > 2 /\ steps[i - 2].op # "placeFirstBond"

\* two path edges have an end atom in common
ShareEndpoint(p, q) == {p[1], Last(p)} \cap {q[1], Last(q)} # {}

\* an atom sequence visits some atom twice, other than by closing on its first atom
Revisits(as) ==
  \E i \in DOMAIN as : \E j \in DOMAIN as :
    i < j /\ as[i] = as[j] /\ ~(i = 1 /\ j = Len(as))

Spliced == pc = "path" /\ spliced.called

\* C13: for two path edges sharing an endpoint, splice does not throw, returns null
\* when the merged atom sequence visits an atom twice (other than closing on its
\* first atom), and so every path edge it returns has pairwise distinct atoms except
\* that first and last may coincide.
C13_SpliceRejectsRevisit ==
  (Spliced /\ ShareEndpoint(spliced.this, spliced.other)) =>
    /\ spliced.result.kind # "error"
    /\ Revisits(newAtoms(spliced.this, spliced.other,
                         getIntersection(spliced.this, spliced.other)))
         => spliced.result.kind = "null"
    /\ spliced.result.kind = "edge" => ~Revisits(spliced.result.atoms)

\* the atoms strictly between the ends of a path edge
Interior(p) == { p[i] : i \in 2..(Len(p) - 1) }

\* s walks along p (in either direction) and then on along q (in either direction),
\* with the atom where they meet written once
WalkOf(s, p, q) ==
  \E a \in {p, Reverse(p)}, b \in {q, Reverse(q)} :
    Last(a) = b[1] /\ s = a \o Tail(b)

\* C14: for simple path edges p and q sharing an endpoint and no other atom,
\* p.splice(q) is a path edge of length |p| + |q| - 1 holding the atoms of p and then
\* of q in walk order with the shared endpoint in the interior, whichever ends the
\* shared atom sits at; when p and q share both endpoints and have disjoint interiors
\* the result closes on its first atom and isCycle() is true; isCycle() is true
\* exactly when length > 2 and first = last.
C14_SpliceJoins ==
  Spliced =>
    \E p \in {spliced.this}, q \in {spliced.other}, r \in {spliced.result} :
      /\ (Cardinality(SeqToSet(p) \cap SeqToSet(q)) = 1 /\ ShareEndpoint(p, q)) =>
           /\ r.kind = "edge"
           /\ Len(r.atoms) = Len(p) + Len(q) - 1
           /\ WalkOf(r.atoms, p, q)
           /\ r.atoms[Len(p)] \in {p[1], Last(p)} \cap {q[1], Last(q)}
           /\ ~isCycle(r.atoms)
      /\ ({p[1], Last(p)} = {q[1], Last(q)} /\ Interior(p) \cap Interior(q) = {}) =>
           /\ r.kind = "edge"
           /\ Len(r.atoms) = Len(p) + Len(q) - 1
           /\ WalkOf(r.atoms, p, q)
           /\ r.atoms[1] = Last(r.atoms)
           /\ isCycle(r.atoms)
      /\ r.kind = "edge" =>
           (isCycle(r.atoms) <=> (Len(r.atoms) > 2 /\ r.atoms[1] = Last(r.atoms)))

\* a splice of two path edges that share both endpoints closes a ring
C14_Witness ==
  /\ Spliced
  /\ spliced.this = << 1, 2, 3 >>
  /\ spliced.other = << 1, 4, 3 >>
  /\ spliced.result.kind = "edge"
  /\ spliced.result.atoms = << 1, 2, 3, 4, 1 >>

\* C15: whenever getCenter is called, between whatever writes to the coords of the
\* ring's atoms, it returns the arithmetic mean of the atoms' current coordinates.
C15_CenterIsCurrentMean ==
  (pc = "center" /\ ringRing.returned.kind # "none") => ringRing.returned = Mean(ringRing.coord)

\* generate is inside the body of its do-while loop
InLoop ==
  \/ pc \in {"aliphatics", "nextRing"}
  \/ pc \in {"ringSet", "ringSetDone"} /\ caller = "next"

\* generate has left its do-while loop in this run
AfterLoop ==
  \/ pc \in {"overlap", "return"}
  \/ pc = "done" /\ \E i \in DOMAIN steps : steps[i].op = "handleAliphatics"

\* C16: the body of generate's alternation loop runs at least once and at most
\* countAtoms + 1 times; the loop is left after the first iteration at whose end all
\* atoms are PLACED; and when the counter is exhausted with atoms still unplaced,
\* generate raises no error, goes on to overlap resolution and returns.
C16_LoopBound ==
  /\ []((InLoop \/ AfterLoop) => safetyCounter \in 1..(countAtoms + 1))
  /\ [](AfterLoop => (atomsAllPlaced(flags) \/ safetyCounter = countAtoms + 1))
  /\ []((pc = "done" /\ AfterLoop) =>
          /\ outcome = "returned"
          /\ Len(steps) > 1
          /\ steps[Len(steps) - 1].op = "resolveOverlap"
          /\ steps[Len(steps)].op = "return")
  /\ [][ /\ (InLoop /\ safetyCounter' = safetyCounter + 1) =>
             (~atomsAllPlaced(flags') /\ safetyCounter <= countAtoms /\ pc' = "aliphatics")
         /\ (InLoop /\ pc' \notin {"aliphatics", "nextRing", "ringSet", "ringSetDone", "error"}) =>
             (pc' = "overlap" /\ outcome' = outcome
                /\ (atomsAllPlaced(flags') \/ safetyCounter' = countAtoms + 1))
       ]_vars

\* the counter ran out with atoms still unplaced and generate returned
C16_Witness ==
  /\ pc = "done"
  /\ AfterLoop
  /\ outcome = "returned"
  /\ safetyCounter = countAtoms + 1
  /\ ~atomsAllPlaced(flags)

\* placeRing has been called on a ring on its own and has returned or thrown
RingPlaced == pc \in {"ringDone", "error"}

\* the strategy placeRing chose, the shared atoms it was given, the atoms it handed to
\* populatePolygonCorners
Strategy == steps[2].op

SharedAtoms == steps[2].atoms

Handed == steps[Len(steps)].atoms

\* two atoms are joined by a bond of the ring
RingAdjacent(a, b) ==
  \E i \in DOMAIN Ring(1).bonds :
    {bond[Ring(1).bonds[i]].source, bond[Ring(1).bonds[i]].target} = {a, b}

\* as walks along ring bonds from a neighbour of atom s on
WalkFrom(s, as) ==
  /\ as # << >> => RingAdjacent(s, as[1])
  /\ \A i \in 1..(Len(as) - 1) : RingAdjacent(as[i], as[i + 1])

\* C17: placeFusedRing, given a ring of n atoms and one bond of it with both ends as
\* the shared fragment (for the seed ring: its first bond), hands n - 2 atoms to
\* populatePolygonCorners: every ring atom that is not an end of the shared bond,
\* once, in ring-adjacency order from the neighbour of the start atom, and neither
\* shared atom.
C17_FusedSweep ==
  (RingPlaced /\ Strategy = "placeFusedRing") =>
    /\ pc = "ringDone"
    /\ Len(steps) = 3
    /\ steps[3].op = "populatePolygonCorners"
    /\ Len(Handed) = Len(atoms) - 2
    /\ SeqToSet(Handed) = SeqToSet(atoms) \ SeqToSet(SharedAtoms)
    /\ \E s \in SeqToSet(SharedAtoms) : WalkFrom(s, Handed)

\* a five-membered ring placed as a fused ring, on a bond other than its first
C17_Witness ==
  /\ pc = "ringDone"
  /\ Strategy = "placeFusedRing"
  /\ Len(atoms) = 5
  /\ Len(Handed) = 3
  /\ SeqToSet(SharedAtoms) # {bond[Ring(1).bonds[1]].source, bond[Ring(1).bonds[1]].target}

\* C18: for a ring of n atoms with its bonds in any order and any ring atom s,
\* atomsInPlacementOrder(s, _, ring.bonds) is n - 1 atoms: every ring atom but s, once,
\* the first bonded to s and each next one bonded to the one before; so placeSpiroRing
\* sweeps every atom but the shared one.
C18_SpiroSweep ==
  (RingPlaced /\ Strategy = "placeSpiroRing") =>
    /\ pc = "ringDone"
    /\ Len(steps) = 3
    /\ steps[3].op = "populatePolygonCorners"
    /\ Handed = atomsInPlacementOrder(SharedAtoms[1], Ring(1).bonds)
    /\ Len(Handed) = Len(atoms) - 1
    /\ SeqToSet(Handed) = SeqToSet(atoms) \ {SharedAtoms[1]}
    /\ WalkFrom(SharedAtoms[1], Handed)

\* a five-membered ring swept from a shared atom whose bonds are not first in ring.bonds
C18_Witness ==
  /\ pc = "ringDone"
  /\ Strategy = "placeSpiroRing"
  /\ Len(atoms) = 5
  /\ Len(Handed) = 4
  /\ otherAtom(bond[Ring(1).bonds[1]], SharedAtoms[1]) = Null

\* the atoms of the shared fragment that lie on one shared bond only
PathEnds ==
  { a \in SeqToSet(SharedAtoms) :
      Cardinality({ b \in SeqToSet(SharedAtoms) : RingAdjacent(a, b) }) = 1 }

\* C19: for a shared fragment that is a path of k > 2 atoms, getBridgeAtoms returns
\* exactly the two end atoms of the path, so bondAtom1 and bondAtom2 of
\* placeBridgedRing are the ends of the shared path.
C19_BridgeAtomsAreEnds ==
  (RingPlaced /\ Strategy = "placeBridgedRing") =>
    /\ steps[3].op = "getBridgeAtoms"
    /\ Len(steps[3].atoms) = 2
    /\ SeqToSet(steps[3].atoms) = PathEnds
    /\ {steps[3].atoms[1], steps[3].atoms[2]} = PathEnds

Placements(r) == { i \in DOMAIN steps : steps[i] = Step("placeRing", Ring(r).atoms) }

\* ringSet is running, or has just returned, on a ring system none of whose rings
\* was flagged PLACED when it was entered (the seed system of a first run)
InFreshRingSet == run = 1 /\ caller = "seed" /\ pc \in {"ringSet", "ringSetDone"}

\* C21: during one call of ringSet on a ring system with no ring flagged PLACED at
\* entry, placeRing is invoked at most once on each ring and a ring is flagged PLACED
\* as soon as it has been placed; each ring other than the seed is placed on the atoms
\* it shares with a ring placed before it; and when ringSet returns every ring of the
\* system has been placed exactly once and is flagged PLACED.
C21_RingSetPlacesEachRingOnce ==
  InFreshRingSet =>
    /\ \A k \in DOMAIN ringset :
         /\ Cardinality(Placements(ringset[k])) <= 1
         /\ ringFlags[ringset[k]] <=> Placements(ringset[k]) # {}
         /\ \A i \in Placements(ringset[k]) :
              \/ steps[i - 1].op = "placeFirstBond"
              \/ \E l \in DOMAIN ringset :
                   /\ \E j \in Placements(ringset[l]) : j < i
                   /\ SeqToSet(steps[i + 1].atoms) # {}
                   /\ SeqToSet(steps[i + 1].atoms) =
                        SeqToSet(Ring(ringset[k]).atoms) \cap SeqToSet(Ring(ringset[l]).atoms)
    /\ Cardinality({ i \in DOMAIN steps : steps[i].op = "placeRing" /\ steps[i - 1].op = "placeFirstBond" }) = 1
    /\ pc = "ringSetDone" =>
         \A k \in DOMAIN ringset :
           Cardinality(Placements(ringset[k])) = 1 /\ ringFlags[ringset[k]]

\* ringSet has returned on a system of three rings
C21_Witness ==
  /\ InFreshRingSet
  /\ pc = "ringSetDone"
  /\ Len(ringset) = 3
  /\ \A k \in DOMAIN ringset : ringFlags[ringset[k]] /\ Placements(ringset[k]) # {}

\* the atoms positioned by the handleAliphatics call that has just returned
PlacedByAliphatics ==
  UNION { SeqToSet(Tail(steps[i].atoms)) :
            i \in { j \in DOMAIN steps :
                      /\ steps[j].op \in {"placeLinearChain", "distributePartners"}
                      /\ \E h \in 1..(j - 1) :
                           /\ steps[h].op = "handleAliphatics"
                           /\ \A l \in h..j : steps[l].op # "layoutNextRingSystem" } }

\* C22: when handleAliphatics returns without having used up its iteration counter,
\* no PLACED atom has an unplaced neighbour that is not a ring atom, whatever the
\* order of the molecule's bonds; and handleAliphatics never places a ring atom.
C22_AliphaticsComplete ==
  pc = "nextRing" =>
    /\ cntr <= countAtoms =>
         \A a \in SeqToSet(atoms) : \A x \in SeqToSet(Neighbours(a)) :
           (flags[a].ISPLACED /\ ~InSomeRing(x)) => flags[x].ISPLACED
    /\ \A x \in PlacedByAliphatics : ~InSomeRing(x)

InGenerateBody ==
  \/ pc = "aliphatics" /\ cntr = 0
  \/ pc \in {"nextRing", "overlap"}

\* every atom of every ring of the ring system of ring r is flagged PLACED
SystemLaidOut(r) ==
  \A k \in DOMAIN ringsets :
    Includes(ringsets[k], r) =>
      \A i \in DOMAIN ringsets[k] :
        \A a \in SeqToSet(Ring(ringsets[k][i]).atoms) : flags[a].ISPLACED

\* C24: wherever control is in generate's own body after seeding, the two placed
\* markers of every ring agree (ring.flags[ISPLACED] is true exactly when
\* ring.isPlaced is), and both are true exactly for the rings of the ring systems
\* whose atoms have been laid out.
C24_RingMarkersAgree ==
  InGenerateBody =>
    \A r \in DOMAIN rings :
      /\ ringFlags[r] <=> isPlaced[r]
      /\ isPlaced[r] <=> SystemLaidOut(r)

\* the positions in steps of the handleAliphatics calls: the starts of the iterations
IterationStarts ==
  SelectSeq([ i \in DOMAIN steps |-> i ], LAMBDA i : steps[i].op = "handleAliphatics")

\* the calls logged during the k-th iteration of the loop
IterationSteps(k) ==
  SelectSeq(SubSeq(steps, IterationStarts[k],
                   IF k < Len(IterationStarts) THEN IterationStarts[k + 1] - 1 ELSE Len(steps)),
            LAMBDA c : c.op \notin {"resolveOverlap", "return"})

\* the atoms positioned during the k-th iteration
PlacedDuring(k) ==
  UNION { SeqToSet(Tail(IterationSteps(k)[i].atoms)) :
            i \in { j \in DOMAIN IterationSteps(k) :
                      IterationSteps(k)[j].op \in {"placeLinearChain", "distributePartners"} } }

\* iterations k and k + 1 did the same work: they placed the same atoms by the same
\* calls, some of which were unplaced again by the end of the iteration, and ended
\* with the same atoms PLACED
SameWorkRepeated(k) ==
  /\ IterationSteps(k) = IterationSteps(k + 1)
  /\ iterations[k] = iterations[k + 1]
  /\ ~(PlacedDuring(k) \subseteq iterations[k])

\* C25: from the end of one iteration of generate's alternation loop to the end of
\* the next the set of atoms flagged PLACED never shrinks: an atom PLACED after an
\* iteration's layoutNextRingSystem call is PLACED after every later iteration; so
\* the loop does not repeat the same place-then-unplace work until the safety
\* counter runs out.
C25_PlacedNeverShrinks ==
  /\ \A i \in DOMAIN iterations : \A j \in DOMAIN iterations :
       i < j => iterations[i] \subseteq iterations[j]
  /\ (pc = "done" /\ AfterLoop /\ safetyCounter = countAtoms + 1) =>
       ~SameWorkRepeated(Len(iterations) - 1)
====
